---- MODULE Spec2Model ----
(***************************************************************************)
(* Model of the SCF untagged-resource scanner (scf-untagged-scan.js, the   *)
(* file kept as src/unnamed/part_000; src/index.js is its older copy).     *)
(*                                                                         *)
(* Spec    : one run of main_handler -- region resolution, the region      *)
(*           worker pool with its scanner units, the COS scanner pool,     *)
(*           the sort and the export.  One action is one event-loop task   *)
(*           (a backend response or a timer) or one promise continuation.  *)
(*           Continuations run before the next task, as in Node.js.        *)
(* SpecLive: Spec over runs with credentials, with the fairness the event  *)
(*           loop and the armed timers give; backend calls may hang.       *)
(* SpecHang: the runs of Spec in which no listing call of a unit answers.  *)
(* SpecPF  : one call of pagedFetch against a paging backend, with a       *)
(*           clock for the age of the outstanding page request.            *)
(* SpecTags: extractTags and hasNoTags applied to one raw resource.        *)
(* SpecEIP : the filter of the EIP unit applied to one address.            *)
(***************************************************************************)
EXTENDS Integers, Sequences, FiniteSets, TLC

VARIABLES
    env,            \* process.env: SCAN_REGIONS, SCAN_SERVICES, ENABLE_COS_SCAN, MAX_REGION_CONCURRENCY, credentials
    cloud,          \* the account as the backends see it: DescribeRegions' RegionSet, getService's Buckets
    pc,             \* position of main_handler
    regions,        \* const regions
    rIndex,         \* let rIndex
    untaggedCount,  \* let untaggedCount
    outputs,        \* const outputs
    sortedOutputs,  \* const sortedOutputs
    result,         \* what main_handler returned or raised
    workers,        \* the regionWorker() calls: position in the loop, claimed region position
    units,          \* the unit invocations (tasks), by region position and index in regionServices
    cos,            \* scanCOS: position, buckets, cursor i, results, its workers
    exporter,       \* exportCsvToCos: calls, the items handed over, outcome
    obs,            \* observer: backend calls issued by operation, DescribeRegions' outcome, claims per region position
    pf,             \* SpecPF: the pagedFetch call under test
    tg,             \* SpecTags: the resource handed to extractTags / hasNoTags and what they returned
    eip             \* SpecEIP: the address handed to the EIP unit's filter and what it decided

vars == <<env, cloud, pc, regions, rIndex, untaggedCount, outputs, sortedOutputs,
          result, workers, units, cos, exporter, obs, pf, tg, eip>>

mainVars == <<env, cloud, pc, regions, rIndex, untaggedCount, outputs, sortedOutputs,
              result, workers, units, cos, exporter, obs>>

(***************************************************************************)
(* Bounds of the model.                                                    *)
(***************************************************************************)
MaxBacking == 5      \* longest backing sequence behind a pagedFetch (SpecPF)
MaxPageSize == 2     \* largest pageSize argument tried (SpecPF)
MaxPagesCfg == 2     \* largest MAX_PAGES_PER_LIST tried (SpecPF)
MaxBuckets == 6      \* most buckets getService lists
SmallBuckets == 2    \* the buckets of the account in the runs that vary the region workers
MaxConc == 2         \* largest MAX_REGION_CONCURRENCY tried
\* the per-page timeout parsedRequestTimeout in ticks of the model's clock (SpecPF)
RequestTimeoutTicks == 1
\* the pageSize the units page with (the default of pagedFetch, 100), scaled to the inventories
DefaultPageSize == 2
MaxRegions == 3      \* most regions a run of the model resolves
MaxTags == 2         \* most tags (or keys) a tag field holds (SpecTags)

(***************************************************************************)
(* Constants of the program.                                               *)
(***************************************************************************)
\* const concurrency = 5 in scanCOS
CosConcurrency == 5
\* the fallback of parsedMaxRegionConc
DefaultRegionConc == 3

Min(a, b) == IF a < b THEN a ELSE b
Max(a, b) == IF a > b THEN a ELSE b

(***************************************************************************)
(* JavaScript values of the tag fields of a raw resource.                  *)
(*   k = "undef" : the property is missing        (falsy)                  *)
(*   k = "arr"   : an array, items = its elements (truthy, also if empty)  *)
(*   k = "obj"   : an object, items = its keys    (truthy, also if empty)  *)
(*   k = "prim"  : a truthy primitive (a non-empty string, a number)       *)
(* ts is the value's own TagSet property: "undef", or the array it holds.  *)
(***************************************************************************)
Undef == [k |-> "undef", items |-> <<>>, ts |-> <<"undef">>]
Arr(s) == [k |-> "arr", items |-> s, ts |-> <<"undef">>]
Obj(keys) == [k |-> "obj", items |-> keys, ts |-> <<"undef">>]
ObjTagSet(s) == [k |-> "obj", items |-> <<"TagSet">>, ts |-> <<"arr">> \o s]
Prim == [k |-> "prim", items |-> <<>>, ts |-> <<"undef">>]

\* a resource that is null or undefined
NullResource == [null |-> TRUE]

Truthy(v) == v.k # "undef"

\* v.TagSet of a tag-field value v (obj.Tags?.TagSet)
TagSetOf(v) == IF v.k = "obj" /\ v.ts[1] = "arr" THEN Arr(Tail(v.ts)) ELSE Undef

\* a raw resource: its identifier and the four tag fields extractTags reads
Resource(id, tags, tagSet, tagList, resourceTags) ==
    [id |-> id, Tags |-> tags, TagSet |-> tagSet, TagList |-> tagList, ResourceTags |-> resourceTags]

\* what the loop of extractTags returns on candidate c: an array itself, the keys of an object
IsCollection(c) == c.k \in {"arr", "obj"}

\* extractTags: [] for no resource; else the first truthy candidate that is an array or an
\* object decides, empty or not, and the candidates after it are not looked at
extractTagsNoKeys(obj) ==
    IF obj = NullResource THEN <<>>
    ELSE LET candidates == SelectSeq(<<obj.Tags, obj.TagSet, obj.TagList, obj.ResourceTags,
                                       TagSetOf(obj.Tags)>>, Truthy)
             found == SelectSeq(candidates, IsCollection)
         IN  IF found = <<>> \/ found[1].k = "obj" THEN <<>> ELSE found[1].items
extractTags(obj) ==
    IF obj = NullResource THEN <<>>
    ELSE LET candidates == SelectSeq(<<obj.Tags, obj.TagSet, obj.TagList, obj.ResourceTags,
                                       TagSetOf(obj.Tags)>>, Truthy)
             found == SelectSeq(candidates, IsCollection)
         IN  IF found = <<>> THEN <<>> ELSE found[1].items

hasNoTags(obj) == Len(extractTags(obj)) = 0

(***************************************************************************)
(* pagedFetch.  The file declares it twice (part_000:124 and :165); a      *)
(* later function declaration replaces an earlier one of the same name, so *)
(* every call runs the second: no per-page timeout, no page cap.           *)
(* A fetch is [st, offset, all, calls]: calls counts the fetchPage calls.  *)
(***************************************************************************)
IdleFetch == [st |-> "idle", offset |-> 0, all |-> <<>>, calls |-> 0]

\* let offset = startOffset; const all = []; first fetchPage call issued
pagedFetchStart == [st |-> "awaiting", offset |-> 0, all |-> <<>>, calls |-> 1]

\* the offset of the request after the one at `offset`
NextOffsetSkip(offset, pageSize) == offset + pageSize + 1
NextOffsetStuck(offset, pageSize) == offset
NextOffset(offset, pageSize) == offset + pageSize

\* whether the loop ends after a page of `n` items: if (items.length < pageSize) break
LastPage(n, pageSize) == n < pageSize

\* a page resolved with `items`: all.push(...items); break or offset += pageSize and fetch again
pagedFetchOnPage(f, items, pageSize) ==
    IF LastPage(Len(items), pageSize)
    THEN [f EXCEPT !.all = f.all \o items, !.st = "returned"]
    ELSE [f EXCEPT !.all = f.all \o items,
                   !.offset = NextOffset(f.offset, pageSize),
                   !.calls = f.calls + 1]

\* the page request rejected: the await throws out of pagedFetch
pagedFetchOnReject(f) == [f EXCEPT !.st = "rejected"]

\* a backend that serves the items at [offset, offset + limit) of `backing`
BackendPage(backing, offset, limit) ==
    SubSeq(backing, offset + 1, Min(Len(backing), offset + limit))

(***************************************************************************)
(* SpecPF: one pagedFetch call.  pf.backing is the backing sequence; when  *)
(* pf.endless the backend instead answers every offset with a full page.   *)
(* pf.maxPages is parsedMaxPagesPerList, pf.age the ticks since the        *)
(* outstanding page request was issued, pf.reqs the offsets requested,     *)
(* pf.answered the number of page requests that resolved or rejected.      *)
(***************************************************************************)
MaxCalls == MaxBacking + 2
MaxAge == RequestTimeoutTicks + 1

Iota(n) == [i \in 1..n |-> i]

PFPage ==
    IF pf.endless
    THEN [i \in 1..pf.pageSize |-> pf.f.offset + i]
    ELSE BackendPage(pf.backing, pf.f.offset, pf.pageSize)

PFOff == [on |-> FALSE, pageSize |-> 1, endless |-> FALSE, backing |-> <<>>, maxPages |-> 1,
          f |-> IdleFetch, age |-> 0, reqs |-> <<>>, answered |-> 0]

PFInputs ==
    { [on |-> TRUE, pageSize |-> p, endless |-> e, backing |-> Iota(n), maxPages |-> m,
       f |-> pagedFetchStart, age |-> 0, reqs |-> <<0>>, answered |-> 0] :
        p \in 1..MaxPageSize, e \in BOOLEAN, n \in 0..MaxBacking, m \in 1..MaxPagesCfg }

\* the outstanding page request resolves with the backend's page
PFResolve ==
    /\ pf.on /\ pf.f.st = "awaiting"
    /\ LET g == pagedFetchOnPage(pf.f, PFPage, pf.pageSize)
       IN  /\ g.calls <= MaxCalls
           /\ pf' = [pf EXCEPT !.f = g, !.age = 0, !.answered = @ + 1,
                               !.reqs = IF g.st = "awaiting" THEN Append(pf.reqs, g.offset) ELSE pf.reqs]
    /\ UNCHANGED <<mainVars, tg, eip>>

\* the outstanding page request rejects
PFReject ==
    /\ pf.on /\ pf.f.st = "awaiting"
    /\ pf' = [pf EXCEPT !.f = pagedFetchOnReject(pf.f), !.answered = @ + 1]
    /\ UNCHANGED <<mainVars, tg, eip>>

\* time passes while the page request is outstanding (no timer is armed by pagedFetch)
PFTick ==
    /\ pf.on /\ pf.f.st = "awaiting"
    /\ pf.age < MaxAge
    /\ pf' = [pf EXCEPT !.age = pf.age + 1]
    /\ UNCHANGED <<mainVars, tg, eip>>

NextPF == PFResolve \/ PFReject \/ PFTick

(***************************************************************************)
(* SpecTags: extractTags and hasNoTags on one raw resource.  Each field    *)
(* has tags (or keys) of its own, so that the field a result came from is  *)
(* visible in the result.                                                  *)
(***************************************************************************)
TagNames ==
    [Tags |-> <<"a", "a2", "a3", "a4">>, TagSet |-> <<"s1", "s2", "s3", "s4">>,
     TagList |-> <<"l1", "l2", "l3", "l4">>, ResourceTags |-> <<"r1", "r2", "r3", "r4">>,
     TagsTagSet |-> <<"n1", "n2", "n3", "n4">>]

TagsOf(field, n) == SubSeq(TagNames[field], 1, n)

\* the values tried for the tag field `field`
FieldValues(field) ==
    {Undef, Prim} \cup {Arr(TagsOf(field, n)) : n \in 0..MaxTags}
                  \cup {Obj(TagsOf(field, n)) : n \in 0..MaxTags}

\* the resources tried: no resource, and every combination of the four fields, Tags also
\* as an object holding a TagSet array
TagInputs ==
    {NullResource} \cup
    { Resource("x", t, ts, tl, rt) :
        t \in FieldValues("Tags") \cup {ObjTagSet(TagsOf("TagsTagSet", n)) : n \in 0..MaxTags},
        ts \in FieldValues("TagSet"), tl \in FieldValues("TagList"),
        rt \in FieldValues("ResourceTags") }

TGOff == [on |-> FALSE, obj |-> NullResource, extracted |-> FALSE, tags |-> <<>>,
          asked |-> FALSE, noTags |-> FALSE]

\* extractTags(obj) is called
TGExtract ==
    /\ tg.on /\ ~tg.extracted
    /\ tg' = [tg EXCEPT !.extracted = TRUE, !.tags = extractTags(tg.obj)]
    /\ UNCHANGED <<mainVars, pf, eip>>

\* hasNoTags(obj) is called
TGHasNoTags ==
    /\ tg.on /\ ~tg.asked
    /\ tg' = [tg EXCEPT !.asked = TRUE, !.noTags = hasNoTags(tg.obj)]
    /\ UNCHANGED <<mainVars, pf, eip>>

NextTags == TGExtract \/ TGHasNoTags

(***************************************************************************)
(* The EIP unit's filter: hasNoTags(x) && isUnbound(x).  An address is     *)
(* [AddressStatus, Status, the presence of its four attachment fields,     *)
(* res: its tag fields]; "" is a status that is missing or empty.          *)
(***************************************************************************)
\* String(s).toUpperCase() on the statuses of the model
ToUpperCase(str) ==
    CASE str = "bind" -> "BIND"
      [] str = "Available" -> "AVAILABLE"
      [] str = "offline" -> "OFFLINE"
      [] OTHER -> str

boundLike == {"BIND", "BINDING", "ASSOCIATED", "ASSOCIATING"}
unboundLike == {"UNBIND", "UNBINDING", "UNBOUND", "AVAILABLE"}

\* x.InstanceId || x.NetworkInterfaceId || x.PrivateAddressId || x.AddressBindInfo
Attached(x) == x.InstanceId \/ x.NetworkInterfaceId \/ x.PrivateAddressId \/ x.AddressBindInfo

isUnboundAttachmentsFirst(x) ==
    LET status == ToUpperCase(IF x.AddressStatus # "" THEN x.AddressStatus ELSE x.Status)
    IN  IF Attached(x) THEN FALSE
        ELSE IF status \in boundLike THEN FALSE
        ELSE TRUE
isUnboundFallbackBound(x) ==
    LET status == ToUpperCase(IF x.AddressStatus # "" THEN x.AddressStatus ELSE x.Status)
    IN  IF status \in boundLike THEN FALSE
        ELSE IF status \in unboundLike THEN TRUE
        ELSE FALSE
isUnbound(x) ==
    LET status == ToUpperCase(IF x.AddressStatus # "" THEN x.AddressStatus ELSE x.Status)
    IN  IF status \in boundLike THEN FALSE
        ELSE IF status \in unboundLike THEN TRUE
        ELSE ~Attached(x)

\* the predicate of items.filter(...) in EIP
EipKept(x) == hasNoTags(x.res) /\ isUnbound(x)

\* the addresses tried
EipInputs ==
    [AddressStatus : {""} \cup boundLike \cup unboundLike \cup {"bind", "Available", "OFFLINE"},
     Status : {"", "BIND", "AVAILABLE", "offline"},
     InstanceId : BOOLEAN, NetworkInterfaceId : BOOLEAN, PrivateAddressId : BOOLEAN,
     AddressBindInfo : BOOLEAN,
     res : {Resource("e1", Undef, Undef, Undef, Undef),
            Resource("e1", Undef, Arr(<<"t">>), Undef, Undef)}]

EIPOff == [on |-> FALSE, x |-> CHOOSE x \in EipInputs : TRUE, asked |-> FALSE, unbound |-> FALSE,
           filtered |-> FALSE, kept |-> FALSE]

\* isUnbound(x) is called
EIPIsUnbound ==
    /\ eip.on /\ ~eip.asked
    /\ eip' = [eip EXCEPT !.asked = TRUE, !.unbound = isUnbound(eip.x)]
    /\ UNCHANGED <<mainVars, pf, tg>>

\* the unit filters the address
EIPFilter ==
    /\ eip.on /\ ~eip.filtered
    /\ eip' = [eip EXCEPT !.filtered = TRUE, !.kept = EipKept(eip.x)]
    /\ UNCHANGED <<mainVars, pf, tg>>

NextEIP == EIPIsUnbound \/ EIPFilter

(***************************************************************************)
(* Strings.  localeCompare on the strings of the model, as their collation *)
(* rank; String(x) of a string is the string.                              *)
(***************************************************************************)
Collation == <<"b1", "b2", "b3", "b4", "b5", "b6", "b7", "b8", "c1", "CCN", "COS", "CVM", "CYNOSDB",
               "eu-frankfurt", "global", "i0", "i1", "i2", "i3", "r1", "r2", "TDSQL_C", "undefined", "y1">>

LocaleRank(s) == CHOOSE i \in 1..Len(Collation) : Collation[i] = s

localeCompare(a, b) ==
    IF LocaleRank(a) < LocaleRank(b) THEN -1 ELSE IF LocaleRank(a) > LocaleRank(b) THEN 1 ELSE 0

\* s.trim() on the raw tokens of the model
Trim(s) == CASE s = " " -> "" [] s = " r2" -> "r2" [] OTHER -> s

\* str.split(",").map(s => s.trim()).filter(Boolean), the string given as its comma-separated pieces
SplitTrim(pieces) ==
    SelectSeq([i \in 1..Len(pieces) |-> Trim(pieces[i])], LAMBDA t : t # "")

\* `STR && STR.trim()`: unset is <<>>; one blank piece is a blank string
NonBlankNever(pieces) == FALSE
NonBlank(pieces) == pieces # <<>> /\ ~(Len(pieces) = 1 /\ Trim(pieces[1]) = "")

\* Array.from(new Set(seq)): first occurrences, in order
RECURSIVE Dedup(_)
Dedup(seq) ==
    IF seq = <<>> THEN <<>>
    ELSE LET front == Dedup(SubSeq(seq, 1, Len(seq) - 1))
             last == seq[Len(seq)]
         IN  IF \E i \in 1..Len(front) : front[i] = last THEN front ELSE Append(front, last)

(***************************************************************************)
(* Configuration read from process.env at load time.                       *)
(***************************************************************************)
\* ENV_SECRET_ID && ENV_SECRET_KEY
HasCredsAlways == TRUE
HasCreds == env.creds

\* Math.max(1, parseInt(MAX_REGION_CONCURRENCY, 10) || 3); 0 stands for unset, "0" or not a number
parsedMaxRegionConc ==
    Max(1, IF env.MAX_REGION_CONCURRENCY = 0 THEN DefaultRegionConc ELSE env.MAX_REGION_CONCURRENCY)

(***************************************************************************)
(* The registry returned by scannersForRegion, reduced to three of its     *)
(* units: CVM (a paged listing), CCN (account-global, home region only)    *)
(* and CYNOSDB (whose records carry the service "TDSQL_C").                *)
(* TKE_SERVERLESS is in allRegionServices but is no key of the registry.   *)
(***************************************************************************)
ScannerKeys == {"CVM", "CCN", "CYNOSDB"}
allRegionServices == <<"CVM", "TKE_SERVERLESS", "CCN", "CYNOSDB">>
HomeRegion == "eu-frankfurt"

Tagged(id) == Resource(id, Arr(<<"t">>), Undef, Undef, Undef)
Untagged(id) == Resource(id, Undef, Undef, Undef, Undef)
EmptyTagSet(id) == Resource(id, Undef, Arr(<<>>), Undef, Undef)

\* what the listing API of unit `key` holds in `region`
Inventory(region, key) ==
    CASE key = "CVM" /\ region = "r1" -> <<Untagged("i1"), Tagged("i0")>>
      [] key = "CVM" /\ region = "r2" -> <<EmptyTagSet("i2")>>
      [] key = "CVM" /\ region = HomeRegion -> <<Untagged("i3"), Tagged("i0"), Untagged("i1")>>
      [] key = "CCN" -> <<Untagged("c1")>>
      [] key = "CYNOSDB" /\ region = "r1" -> <<Untagged("y1")>>
      [] OTHER -> <<>>

\* const regionServices
regionServices ==
    IF NonBlank(env.SCAN_SERVICES) THEN SplitTrim(env.SCAN_SERVICES) ELSE allRegionServices

\* the keys of the runs that scan, an object literal, inherits from Object.prototype
ObjectPrototypeKeys == {"toString"}

\* const fn = scan[svcName]; if (!fn) return;   (a property lookup: inherited members are found)
Registered(key) == key \in ScannerKeys \cup ObjectPrototypeKeys

\* fn() for fn = Object.prototype.toString, called without a receiver: the string
\* "[object Undefined]", which `for (const it of items)` walks character by character
ObjectUndefined ==
    <<"[", "o", "b", "j", "e", "c", "t", " ", "U", "n", "d", "e", "f", "i", "n", "e", "d", "]">>

\* it.service, it.id and it.region of a character are undefined; String(undefined) is what
\* the sort and the CSV make of the first two
InheritedResult ==
    [i \in DOMAIN ObjectUndefined |-> [service |-> "undefined", id |-> "undefined", region |-> "undef"]]

\* `if (region !== "eu-frankfurt") return [];` of CCN (and PRIVATE_DNS)
ReturnsEmptyAtOnce(key, region) == key = "CCN" /\ region # HomeRegion

\* items.filter(hasNoTags).map(x => ({ service, id [, region: "global"] })); "undef" = no region property
\* the service literal the unit `key` writes into its records
ServiceLabel(key) == IF key = "CYNOSDB" THEN "TDSQL_C" ELSE key

UnitMap(key, x) ==
    [service |-> ServiceLabel(key), id |-> x.id, region |-> IF key = "CCN" THEN "global" ELSE "undef"]

UnitResultUnfiltered(key, items) == [i \in 1..Len(items) |-> UnitMap(key, items[i])]
UnitResult(key, items) ==
    LET kept == SelectSeq(items, hasNoTags)
    IN  [i \in 1..Len(kept) |-> UnitMap(key, kept[i])]

\* outputs.push({ service: it.service, id: it.id, region: it.region ?? region })
PushedRecordLastClaimed(it, region) ==
    [service |-> it.service, id |-> it.id,
     region |-> IF it.region = "undef" THEN regions[rIndex] ELSE it.region]
PushedRecord(it, region) ==
    [service |-> it.service, id |-> it.id,
     region |-> IF it.region = "undef" THEN region ELSE it.region]

PushAll(items, region) == [i \in 1..Len(items) |-> PushedRecord(items[i], region)]

(***************************************************************************)
(* The sort of main_handler: Array.prototype.sort is stable, so the result *)
(* is the stable arrangement by the comparator.                            *)
(***************************************************************************)
CompareRegionOnly(a, b) == localeCompare(a.region, b.region)
CompareServiceFirst(a, b) ==
    LET s == localeCompare(a.service, b.service)
        r == localeCompare(a.region, b.region)
    IN  IF s # 0 THEN s ELSE IF r # 0 THEN r ELSE localeCompare(a.id, b.id)
Compare(a, b) ==
    LET r == localeCompare(a.region, b.region)
        s == localeCompare(a.service, b.service)
    IN  IF r # 0 THEN r ELSE IF s # 0 THEN s ELSE localeCompare(a.id, b.id)

\* x put after the last element that does not compare greater than it
InsertUnique(sorted, x) ==
    IF \E i \in 1..Len(sorted) : sorted[i] = x THEN sorted
    ELSE LET n == Cardinality({i \in 1..Len(sorted) : \E j \in i..Len(sorted) : Compare(sorted[j], x) <= 0})
         IN  SubSeq(sorted, 1, n) \o <<x>> \o SubSeq(sorted, n + 1, Len(sorted))
Insert(sorted, x) ==
    LET n == Cardinality({i \in 1..Len(sorted) : \E j \in i..Len(sorted) : Compare(sorted[j], x) <= 0})
    IN  SubSeq(sorted, 1, n) \o <<x>> \o SubSeq(sorted, n + 1, Len(sorted))

RECURSIVE Sort(_)
Sort(seq) ==
    IF seq = <<>> THEN <<>>
    ELSE Insert(Sort(SubSeq(seq, 1, Len(seq) - 1)), seq[Len(seq)])

(***************************************************************************)
(* Spec: the run.  Scenarios of the environment and of the account.        *)
(***************************************************************************)
RegionOverrides ==
    { <<>>, <<" ">>, <<"r1", " r2">>, <<"r2", "r1", "r2">>, <<"", HomeRegion, "r1">> }
UnknownKeySelections == { <<"NOPE", "CVM">>, <<"toString", "CVM">>, <<"CVM", "TKE_SERVERLESS">> }
ServiceSubsets == { <<>>, <<"CVM">>, <<"CCN", "CVM">>, <<"CVM", "CVM">>, <<"CYNOSDB">> }
RegionSets == { <<HomeRegion, "r1">>, <<"r2", "r2">> }

\* what getBucketTagging hands to its callback: (err, data)
NoErr(data) == [err |-> FALSE, statusCode |-> 0, errorCode |-> "", data |-> data]
Err(statusCode, errorCode) == [err |-> TRUE, statusCode |-> statusCode, errorCode |-> errorCode,
                               data |-> NullResource]
\* the data of a tagging answer: its TagSet, its Tags.Tag, its Tags
CosData(tagSet, tagsTag, tags) == [TagSet |-> tagSet, TagsTag |-> tagsTag, Tags |-> tags]

\* the buckets of the account (Name and Location as getService lists them) with the answer
\* getBucketTagging gives for each
AllBuckets ==
    << [Name |-> "b1", Location |-> "r1", tagging |-> Err(404, "NoSuchKey")],
       [Name |-> "b2", Location |-> "r2", tagging |-> Err(403, "AccessDenied")],
       [Name |-> "b3", Location |-> "r1", tagging |-> NoErr(CosData(Arr(<<"t">>), Undef, Undef))],
       [Name |-> "b4", Location |-> "r2", tagging |-> NoErr(CosData(Arr(<<>>), Undef, Undef))],
       [Name |-> "b5", Location |-> "r1", tagging |-> Err(400, "NoSuchTagSet")],
       [Name |-> "b6", Location |-> "r2", tagging |-> NoErr(CosData(Undef, Arr(<<"t">>), Obj(<<"Tag">>)))],
       [Name |-> "b7", Location |-> "r1", tagging |-> NoErr(NullResource)],
       [Name |-> "b8", Location |-> "r2", tagging |-> Err(500, "InternalError")] >>

Envs ==
    [SCAN_REGIONS : RegionOverrides, SCAN_SERVICES : ServiceSubsets,
     ENABLE_COS_SCAN : {"true", "false"}, MAX_REGION_CONCURRENCY : 0..MaxConc,
     creds : BOOLEAN]

Clouds ==
    [RegionSet : RegionSets, Buckets : {SubSeq(AllBuckets, 1, n) : n \in 0..MaxBuckets}]

NoResult == [kind |-> "none", scannedRegions |-> 0, untaggedCount |-> 0, error |-> ""]
Summary(nRegions, count) ==
    [kind |-> "summary", scannedRegions |-> nRegions, untaggedCount |-> count, error |-> ""]
Raised(e) == [kind |-> "error", scannedRegions |-> 0, untaggedCount |-> 0, error |-> e]

\* a unit invocation: the task, the fetch of its unit, what the unit returned, what the task pushed,
\* and how many times it was started
NoUnit == [task |-> "none", f |-> IdleFetch, returned |-> <<>>, pushed |-> <<>>, n |-> 0]
CosOff == [st |-> "none", buckets |-> <<>>, i |-> 0, results |-> <<>>, answered |-> {},
           claimed |-> <<>>,
           wk |-> [w \in 1..CosConcurrency |-> [st |-> "none", idx |-> 0]]]
\* the exporter: how its call ended, the items it was called with, the Body it handed to
\* putObject as its lines (<<>>: no object was built), and how many times it was called
ExporterOff == [st |-> "none", items |-> <<>>, body |-> <<>>, n |-> 0]
NoCalls == [DescribeRegions |-> 0, describe |-> "none", getService |-> 0, getBucketTagging |-> 0,
            putObject |-> 0, claims |-> <<>>]

MainInit ==
    /\ pc = "start"
    /\ regions = <<>>
    /\ rIndex = 0
    /\ untaggedCount = 0
    /\ outputs = <<>>
    /\ sortedOutputs = <<>>
    /\ result = NoResult
    /\ workers = <<>>
    /\ units = <<>>
    /\ cos = CosOff
    /\ exporter = ExporterOff
    /\ obs = NoCalls

\* The runs tried.  What a run never reads is held at one value: the RegionSet under an
\* override, the buckets and the COS flag without credentials.  With credentials (the COS
\* scanner and the upload run) two region sources and two service selections are tried, and
\* the accounts with more buckets than scanCOS has workers in one of these runs.  The whole
\* registry, a repeated key and CYNOSDB alone are tried over the override "r1, r2".
Scenario(e, c) ==
    /\ NonBlank(e.SCAN_REGIONS) => c.RegionSet = <<HomeRegion, "r1">>
    /\ e.SCAN_SERVICES \in {<<>>, <<"CVM", "CVM">>, <<"CYNOSDB">>} => e.SCAN_REGIONS = <<"r1", " r2">>
    /\ e.SCAN_SERVICES \in {<<"CVM", "CVM">>, <<"CYNOSDB">>} => ~e.creds /\ e.MAX_REGION_CONCURRENCY = 1
    /\ ~e.creds => Len(c.Buckets) = SmallBuckets /\ e.ENABLE_COS_SCAN = "true"
    /\ e.creds => /\ e.SCAN_REGIONS \in {<<>>, <<"r1", " r2">>}
                  /\ c.RegionSet = <<HomeRegion, "r1">>
                  /\ e.SCAN_SERVICES \in {<<>>, <<"CVM">>}
                  /\ e.ENABLE_COS_SCAN = "false" => e.SCAN_SERVICES = <<"CVM">>
                  /\ Len(c.Buckets) > SmallBuckets =>
                        /\ e.SCAN_REGIONS = <<"r1", " r2">> /\ e.SCAN_SERVICES = <<"CVM">>
                        /\ e.ENABLE_COS_SCAN = "true" /\ e.MAX_REGION_CONCURRENCY = 1

Init ==
    /\ env \in Envs
    /\ cloud \in Clouds
    /\ Scenario(env, cloud)
    /\ MainInit
    /\ pf = PFOff
    /\ tg = TGOff
    /\ eip = EIPOff

\* runs with credentials and no override: every backend call of main_handler is made
InitLive ==
    /\ env \in {e \in Envs : /\ e.creds /\ e.SCAN_REGIONS = <<>> /\ e.SCAN_SERVICES = <<"CCN", "CVM">>
                              /\ e.ENABLE_COS_SCAN = "true"}
    /\ cloud = [RegionSet |-> <<HomeRegion, "r1">>, Buckets |-> SubSeq(AllBuckets, 1, SmallBuckets)]
    /\ MainInit
    /\ pf = PFOff
    /\ tg = TGOff
    /\ eip = EIPOff

\* runs whose SCAN_SERVICES names keys that scannersForRegion does not define
InitKeys ==
    /\ env \in [SCAN_REGIONS : {<<>>}, SCAN_SERVICES : UnknownKeySelections,
                 ENABLE_COS_SCAN : {"true"}, MAX_REGION_CONCURRENCY : 1..MaxConc, creds : {TRUE}]
    /\ cloud = [RegionSet |-> <<HomeRegion, "r1">>, Buckets |-> SubSeq(AllBuckets, 1, SmallBuckets)]
    /\ MainInit
    /\ pf = PFOff
    /\ tg = TGOff
    /\ eip = EIPOff

InitPF ==
    /\ env = [SCAN_REGIONS |-> <<>>, SCAN_SERVICES |-> <<>>, ENABLE_COS_SCAN |-> "true",
              MAX_REGION_CONCURRENCY |-> 1, creds |-> FALSE]
    /\ cloud = [RegionSet |-> <<>>, Buckets |-> <<>>]
    /\ MainInit
    /\ pf \in PFInputs
    /\ tg = TGOff
    /\ eip = EIPOff

InitTags ==
    /\ env = [SCAN_REGIONS |-> <<>>, SCAN_SERVICES |-> <<>>, ENABLE_COS_SCAN |-> "true",
              MAX_REGION_CONCURRENCY |-> 1, creds |-> FALSE]
    /\ cloud = [RegionSet |-> <<>>, Buckets |-> <<>>]
    /\ MainInit
    /\ pf = PFOff
    /\ tg \in {[TGOff EXCEPT !.on = TRUE, !.obj = o] : o \in TagInputs}
    /\ eip = EIPOff

InitEIP ==
    /\ env = [SCAN_REGIONS |-> <<>>, SCAN_SERVICES |-> <<>>, ENABLE_COS_SCAN |-> "true",
              MAX_REGION_CONCURRENCY |-> 1, creds |-> FALSE]
    /\ cloud = [RegionSet |-> <<>>, Buckets |-> <<>>]
    /\ MainInit
    /\ pf = PFOff
    /\ tg = TGOff
    /\ eip \in {[EIPOff EXCEPT !.on = TRUE, !.x = x] : x \in EipInputs}

Settled(u) == units[u].task # "pending"
\* Promise.allSettled(tasks) of the region at position pos has resolved
AllSettled(pos) == \A k \in 1..Len(regionServices) : Settled(<<pos, k>>)

\* a regionWorker call can run: it was just called, or its await has resolved
WorkerReadyNoWait(w) ==
    \/ workers[w].st = "new" /\ \A v \in 1..(w - 1) : workers[v].st # "new"
    \/ workers[w].st = "awaiting"
WorkerReady(w) ==
    \/ workers[w].st = "new" /\ \A v \in 1..(w - 1) : workers[v].st # "new"
    \/ workers[w].st = "awaiting" /\ AllSettled(workers[w].pos)

AllExitedEarly == TRUE
AllExited == \A w \in DOMAIN workers : workers[w].st = "exited"

\* a promise continuation is queued: it runs before any backend response or timer
ContinuationPending ==
    \/ pc \in {"start", "aggregate", "return"}
    \/ pc = "dispatch" /\ (AllExited \/ \E w \in DOMAIN workers : WorkerReady(w))

(***************************************************************************)
(* listAllRegions and the start of the dispatcher.                         *)
(***************************************************************************)
\* the dispatcher's variables once `regions` is known: Array.from({length: min(...)}, () => regionWorker())
DispatchPerRegion(rs) ==
    /\ regions' = rs
    /\ pc' = "dispatch"
    /\ workers' = [w \in 1..Len(rs) |-> [st |-> "new", pos |-> 0]]
    /\ units' = [u \in (1..Len(rs)) \X (1..Len(regionServices)) |-> NoUnit]
    /\ obs' = [obs EXCEPT !.claims = [i \in 1..Len(rs) |-> 0],
                          !.describe = IF pc = "start" THEN @ ELSE "resolved"]
Dispatch(rs) ==
    /\ regions' = rs
    /\ pc' = "dispatch"
    /\ workers' = [w \in 1..Min(parsedMaxRegionConc, Len(rs)) |-> [st |-> "new", pos |-> 0]]
    /\ units' = [u \in (1..Len(rs)) \X (1..Len(regionServices)) |-> NoUnit]
    /\ obs' = [obs EXCEPT !.claims = [i \in 1..Len(rs) |-> 0],
                          !.describe = IF pc = "start" THEN @ ELSE "resolved"]

\* main_handler is called; listAllRegions returns the override or calls DescribeRegions
main_handler ==
    /\ pc = "start"
    /\ IF NonBlank(env.SCAN_REGIONS)
       THEN Dispatch(SplitTrim(env.SCAN_REGIONS))
       ELSE /\ pc' = "describe"
            /\ obs' = [obs EXCEPT !.DescribeRegions = @ + 1, !.describe = "pending"]
            /\ UNCHANGED <<regions, workers, units>>
    /\ UNCHANGED <<env, cloud, rIndex, untaggedCount, outputs, sortedOutputs, result, cos, exporter, pf, tg, eip>>

\* DescribeRegions resolves: (res.RegionSet || []).map(r => r.Region).filter(Boolean), deduplicated
DescribeRegionsResolve ==
    /\ pc = "describe"
    /\ Dispatch(Dedup(SelectSeq(cloud.RegionSet, LAMBDA r : r # "")))
    /\ UNCHANGED <<env, cloud, rIndex, untaggedCount, outputs, sortedOutputs, result, cos, exporter, pf, tg, eip>>

\* DescribeRegions rejects, or the withTimeout timer fires first: listAllRegions throws out of main_handler
DescribeRegionsFailSwallowed ==
    /\ pc = "describe"
    /\ \E e \in {"rejected", "timeout:DescribeRegions"} : obs' = [obs EXCEPT !.describe = e]
    /\ regions' = <<>> /\ workers' = <<>> /\ units' = <<>>
    /\ pc' = "dispatch"
    /\ UNCHANGED <<env, cloud, rIndex, untaggedCount, outputs, sortedOutputs, result, cos, exporter, pf, tg, eip>>
DescribeRegionsFail ==
    /\ pc = "describe"
    /\ \E e \in {"rejected", "timeout:DescribeRegions"} :
          /\ result' = Raised(e)
          /\ obs' = [obs EXCEPT !.describe = e]
    /\ pc' = "failed"
    /\ UNCHANGED <<env, cloud, regions, rIndex, untaggedCount, outputs, sortedOutputs, workers, units,
                   cos, exporter, pf, tg, eip>>

(***************************************************************************)
(* regionWorker.                                                           *)
(***************************************************************************)
\* regions[rIndex++]: the cursor after a claim
AfterClaimStuck(r) == r
AfterClaim(r) == r + 1

\* the task of regionServices[k] for `region`, run to its first await
StartUnit(key, region, old) ==
    IF ~Registered(key) THEN [old EXCEPT !.task = "skipped", !.n = @ + 1]
    ELSE IF key \in ObjectPrototypeKeys
         THEN [old EXCEPT !.task = "ok", !.returned = InheritedResult,
                          !.pushed = PushAll(InheritedResult, region), !.n = @ + 1]
    ELSE IF ReturnsEmptyAtOnce(key, region) THEN [old EXCEPT !.task = "ok", !.n = @ + 1]
    ELSE [old EXCEPT !.task = "pending", !.f = pagedFetchStart, !.n = @ + 1]

\* untaggedCount++ beside every outputs.push of a for loop over `items`
CountedOncePerLoop(count, items) == count + (IF items = <<>> THEN 0 ELSE 1)
Counted(count, items) == count + Len(items)

\* what the tasks of the region at position pos push without waiting for any backend answer
\* (fn() gave a value, not a promise), for the first k keys of regionServices
RECURSIVE PushedAtOnce(_, _)
PushedAtOnce(pos, k) ==
    IF k = 0 THEN <<>>
    ELSE PushedAtOnce(pos, k - 1) \o
         (IF regionServices[k] \in ObjectPrototypeKeys
          THEN PushAll(InheritedResult, regions[pos]) ELSE <<>>)

\* one turn of the while loop of regionWorker w: claim the next region and start its tasks, or exit
regionWorker(w) ==
    /\ pc = "dispatch"
    /\ WorkerReady(w)
    /\ IF rIndex < Len(regions)
       THEN LET pos == rIndex + 1
                new == PushedAtOnce(pos, Len(regionServices))
            IN  /\ rIndex' = AfterClaim(rIndex)
                /\ workers' = [workers EXCEPT ![w] = [st |-> "awaiting", pos |-> pos]]
                /\ units' = [u \in DOMAIN units |->
                               IF u[1] = pos
                               THEN StartUnit(regionServices[u[2]], regions[pos], units[u])
                               ELSE units[u]]
                /\ obs' = [obs EXCEPT !.claims[pos] = @ + 1]
                /\ outputs' = outputs \o new
                /\ untaggedCount' = Counted(untaggedCount, new)
       ELSE /\ workers' = [workers EXCEPT ![w].st = "exited"]
            /\ UNCHANGED <<rIndex, units, obs, outputs, untaggedCount>>
    /\ UNCHANGED <<env, cloud, pc, regions, sortedOutputs, result, cos, exporter, pf, tg, eip>>

(***************************************************************************)
(* The scanner units: backend responses and the per-unit timer.            *)
(***************************************************************************)
Running == pc \in {"dispatch", "cos", "aggregate", "export", "return"}

\* what the continuation after `await withTimeout(fn(), ...)` adds for a unit that returned `ret`
ContributionLate(task, ret, region) ==
    IF task \in {"pending", "timeout"} THEN PushAll(ret, region) ELSE <<>>
ContributionAlways(task, ret, region) == PushAll(ret, region)
Contribution(task, ret, region) == IF task = "pending" THEN PushAll(ret, region) ELSE <<>>

\* the page request of unit u resolves; on the last page the unit returns and, unless the
\* task was already settled by its timer, the task pushes the records
PageResolve(u) ==
    /\ Running /\ ~ContinuationPending
    /\ units[u].f.st = "awaiting"
    /\ LET region == regions[u[1]]
           key == regionServices[u[2]]
           f == units[u].f
           g == pagedFetchOnPage(f, BackendPage(Inventory(region, key), f.offset, DefaultPageSize),
                                 DefaultPageSize)
           ret == UnitResult(key, g.all)
           new == Contribution(units[u].task, ret, region)
       IN  IF g.st = "returned"
           THEN /\ units' = [units EXCEPT ![u] = [@ EXCEPT !.task = IF @ = "pending" THEN "ok" ELSE @,
                                                           !.f = g, !.returned = ret, !.pushed = new]]
                /\ outputs' = outputs \o new
                /\ untaggedCount' = Counted(untaggedCount, new)
           ELSE /\ units' = [units EXCEPT ![u].f = g]
                /\ UNCHANGED <<outputs, untaggedCount>>
    /\ UNCHANGED <<env, cloud, pc, regions, rIndex, sortedOutputs, result, workers, cos, exporter, obs, pf, tg, eip>>

\* the page request of unit u rejects: pagedFetch and the unit throw, the task's catch swallows it
PageReject(u) ==
    /\ Running /\ ~ContinuationPending
    /\ units[u].f.st = "awaiting"
    /\ units' = [units EXCEPT ![u] = [@ EXCEPT !.task = IF @ = "pending" THEN "failed" ELSE @,
                                               !.f = pagedFetchOnReject(@)]]
    /\ UNCHANGED <<env, cloud, pc, regions, rIndex, untaggedCount, outputs, sortedOutputs, result,
                   workers, cos, exporter, obs, pf, tg, eip>>

\* the SERVICE_TIMEOUT_MS timer of unit u fires before fn() settled: the task's catch swallows it;
\* the unit's own calls stay outstanding
UnitTimeoutNever(u) == FALSE /\ UNCHANGED vars
UnitTimeout(u) ==
    /\ Running /\ ~ContinuationPending
    /\ units[u].task = "pending"
    /\ units' = [units EXCEPT ![u].task = "timeout"]
    /\ UNCHANGED <<env, cloud, pc, regions, rIndex, untaggedCount, outputs, sortedOutputs, result,
                   workers, cos, exporter, obs, pf, tg, eip>>

(***************************************************************************)
(* scanCOS.                                                                *)
(***************************************************************************)
\* String(s).toLowerCase() on the error codes of the model
ToLowerCase(str) ==
    CASE str = "NoSuchTagSet" -> "nosuchtagset"
      [] str = "NoSuchKey" -> "nosuchkey"
      [] str = "AccessDenied" -> "accessdenied"
      [] str = "InternalError" -> "internalerror"
      [] OTHER -> str

\* the "tagging not set" errors: err.statusCode === 404 or errorCode is nosuchtagset in any case
NoTagConfig(a) == a.statusCode = 404 \/ ToLowerCase(a.errorCode) = "nosuchtagset"

\* the callback of getBucketTagging: reject for the other errors
TaggingRejects404(a) == a.err
TaggingRejectsNever(a) == FALSE
TaggingRejects(a) == a.err /\ ~NoTagConfig(a)

\* what the await yields otherwise: { TagSet: [] } for "tagging not set" and for no data, else data
TagsRes(a) ==
    IF a.err \/ a.data = NullResource THEN CosData(Arr(<<>>), Undef, Undef) ELSE a.data

\* normalizeCosTagSet: data.TagSet || data.Tags.Tag || data.Tags || [], kept only if an array
normalizeCosTagSet(data) ==
    LET found == SelectSeq(<<data.TagSet, data.TagsTag, data.Tags>>, Truthy)
    IN  IF found # <<>> /\ found[1].k = "arr" THEN found[1].items ELSE <<>>

\* hasNoTags({ TagSet: tagSet })
BucketUntagged(a) ==
    hasNoTags(Resource("", Undef, Arr(normalizeCosTagSet(TagsRes(a))), Undef, Undef))

\* b.Location of the bucket named `bucket` (the region its tagging is asked from)
LocationOf(bucket) == (CHOOSE b \in {AllBuckets[i] : i \in DOMAIN AllBuckets} : b.Name = bucket).Location

\* results.push({ service: "COS", id: bucket, region: "global" })
CosRecordOwnRegion(bucket) == [service |-> "COS", id |-> bucket, region |-> LocationOf(bucket)]
CosRecord(bucket) == [service |-> "COS", id |-> bucket, region |-> "global"]

\* worker w of scanCOS at the head of its while loop: claim buckets[i++] and fetch its tags, or return
\* (c.claimed counts, per bucket, the times a worker took it)
CosLoopNoAdvance(c, w) ==
    IF c.i < Len(c.buckets)
    THEN [c EXCEPT !.wk[w] = [st |-> "awaiting", idx |-> c.i + 1], !.claimed[c.i + 1] = @ + 1]
    ELSE [c EXCEPT !.wk[w].st = "exited"]
CosLoop(c, w) ==
    IF c.i < Len(c.buckets)
    THEN [c EXCEPT !.i = c.i + 1, !.wk[w] = [st |-> "awaiting", idx |-> c.i + 1],
                   !.claimed[c.i + 1] = @ + 1]
    ELSE [c EXCEPT !.wk[w].st = "exited"]

\* Array.from({ length }, () => worker()): the workers called one after the other
RECURSIVE CosSpawn(_, _)
CosSpawn(c, n) == IF n = 0 THEN c ELSE CosLoop(CosSpawn(c, n - 1), n)

CosAwaiting(c) == {w \in 1..CosConcurrency : c.wk[w].st = "awaiting"}

\* all region workers have exited: main_handler calls scanCOS (ENABLE_COS_SCAN is not read)
DispatchDone ==
    /\ pc = "dispatch" /\ AllExited
    /\ ~\E w \in DOMAIN workers : WorkerReady(w)
    /\ IF ~HasCreds
       THEN /\ cos' = [cos EXCEPT !.st = "returned"]
            /\ pc' = "aggregate"
            /\ UNCHANGED obs
       ELSE /\ cos' = [cos EXCEPT !.st = "listing"]
            /\ pc' = "cos"
            /\ obs' = [obs EXCEPT !.getService = @ + 1]
    /\ UNCHANGED <<env, cloud, regions, rIndex, untaggedCount, outputs, sortedOutputs, result, workers,
                   units, exporter, pf, tg, eip>>

\* getService resolves with the buckets; the pool of min(concurrency, buckets.length) workers starts
GetServiceResolve ==
    /\ pc = "cos" /\ cos.st = "listing"
    /\ LET n == Min(CosConcurrency, Len(cloud.Buckets))
           c == CosSpawn([cos EXCEPT !.buckets = cloud.Buckets,
                                        !.claimed = [b \in DOMAIN cloud.Buckets |-> 0]], n)
       IN  /\ cos' = [c EXCEPT !.st = IF n = 0 THEN "returned" ELSE "pool"]
           /\ pc' = IF n = 0 THEN "aggregate" ELSE "cos"
           /\ obs' = [obs EXCEPT !.getBucketTagging = @ + n]
    /\ UNCHANGED <<env, cloud, regions, rIndex, untaggedCount, outputs, sortedOutputs, result, workers,
                   units, exporter, pf, tg, eip>>

\* getService rejects: scanCOS throws, main_handler's catch ignores it
GetServiceRejectRaises ==
    /\ pc = "cos" /\ cos.st = "listing"
    /\ cos' = [cos EXCEPT !.st = "threw"]
    /\ pc' = "failed"
    /\ result' = Raised("getService")
    /\ UNCHANGED <<env, cloud, regions, rIndex, untaggedCount, outputs, sortedOutputs, workers,
                   units, exporter, obs, pf, tg, eip>>
GetServiceReject ==
    /\ pc = "cos" /\ cos.st = "listing"
    /\ cos' = [cos EXCEPT !.st = "threw"]
    /\ pc' = "aggregate"
    /\ UNCHANGED <<env, cloud, regions, rIndex, untaggedCount, outputs, sortedOutputs, result, workers,
                   units, exporter, obs, pf, tg, eip>>

\* getBucketTagging of worker w calls back; the worker records the bucket or not, then loops
TaggingResponse(w) ==
    /\ pc = "cos" /\ cos.st = "pool"
    /\ cos.wk[w].st = "awaiting"
    /\ LET idx == cos.wk[w].idx
           a == cos.buckets[idx].tagging
           c0 == [cos EXCEPT !.answered = @ \cup {idx}]
           c1 == IF ~TaggingRejects(a) /\ BucketUntagged(a)
                 THEN [c0 EXCEPT !.results = Append(@, CosRecord(cos.buckets[idx].Name))]
                 ELSE c0
           c2 == CosLoop(c1, w)
           n == IF c2.wk[w].st = "awaiting" THEN 1 ELSE 0
       IN  /\ cos' = [c2 EXCEPT !.st = IF CosAwaiting(c2) = {} THEN "returned" ELSE "pool"]
           /\ pc' = IF CosAwaiting(c2) = {} THEN "aggregate" ELSE "cos"
           /\ obs' = [obs EXCEPT !.getBucketTagging = @ + n]
    /\ UNCHANGED <<env, cloud, regions, rIndex, untaggedCount, outputs, sortedOutputs, result, workers,
                   units, exporter, pf, tg, eip>>

(***************************************************************************)
(* Aggregation, export, return.                                            *)
(***************************************************************************)
\* for (const it of cosItems) outputs.push(...): nothing when scanCOS threw
CosItems == IF cos.st = "returned" THEN cos.results ELSE <<>>

\* const header = "region,service,id\n": a line of the CSV is the tuple of its comma-separated cells
CsvHeader == <<"region", "service", "id">>

\* `${i.region},${i.service},${i.id}`
CsvLine(i) == <<i.region, i.service, i.id>>

\* header + lines + (lines ? "\n" : ""), as the sequence of its newline-terminated lines
CsvNoHeader(items) == [i \in 1..Len(items) |-> CsvLine(items[i])]
Csv(items) == <<CsvHeader>> \o [i \in 1..Len(items) |-> CsvLine(items[i])]

\* after scanCOS: push its items, sort, call exportCsvToCos (which throws at once without credentials)
Aggregate ==
    /\ pc = "aggregate"
    /\ LET all == outputs \o CosItems
           sorted == Sort(all)
       IN  /\ outputs' = all
           /\ untaggedCount' = Counted(untaggedCount, CosItems)
           /\ sortedOutputs' = sorted
           /\ IF ~HasCreds
              THEN /\ exporter' = [st |-> "threw", items |-> sorted, body |-> <<>>,
                                    n |-> exporter.n + 1]
                   /\ pc' = "return"
                   /\ UNCHANGED obs
              ELSE /\ exporter' = [st |-> "uploading", items |-> sorted, body |-> Csv(sorted),
                                    n |-> exporter.n + 1]
                   /\ pc' = "export"
                   /\ obs' = [obs EXCEPT !.putObject = @ + 1]
    /\ UNCHANGED <<env, cloud, regions, rIndex, result, workers, units, cos, pf, tg, eip>>

\* putObject calls back: with data (resolve) or with err (reject, caught by main_handler)
PutObjectDone(ok) ==
    /\ pc = "export"
    /\ exporter' = [exporter EXCEPT !.st = IF ok THEN "ok" ELSE "threw"]
    /\ pc' = "return"
    /\ UNCHANGED <<env, cloud, regions, rIndex, untaggedCount, outputs, sortedOutputs, result, workers,
                   units, cos, obs, pf, tg, eip>>

\* the value main_handler returns after an export that ended with `st`
ReturnValueZeroOnThrow(st) == Summary(Len(regions), IF st = "threw" THEN 0 ELSE untaggedCount)
ReturnValue(st) == Summary(Len(regions), untaggedCount)

\* return { statusCode: 200, body: JSON.stringify({ scannedRegions: regions.length, untaggedCount }) }
Return ==
    /\ pc = "return"
    /\ result' = ReturnValue(exporter.st)
    /\ pc' = "done"
    /\ UNCHANGED <<env, cloud, regions, rIndex, untaggedCount, outputs, sortedOutputs, workers, units,
                   cos, exporter, obs, pf, tg, eip>>

Next ==
    \/ main_handler
    \/ DescribeRegionsResolve
    \/ DescribeRegionsFail
    \/ \E w \in DOMAIN workers : regionWorker(w)
    \/ \E u \in DOMAIN units : PageResolve(u)
    \/ \E u \in DOMAIN units : PageReject(u)
    \/ \E u \in DOMAIN units : UnitTimeout(u)
    \/ DispatchDone
    \/ GetServiceResolve
    \/ GetServiceReject
    \/ \E w \in 1..CosConcurrency : TaggingResponse(w)
    \/ Aggregate
    \/ \E ok \in BOOLEAN : PutObjectDone(ok)
    \/ Return

Spec == Init /\ [][Next]_vars

SpecKeys == InitKeys /\ [][Next]_vars

\* What is bound to happen: a queued promise continuation runs, and a timer armed by
\* withTimeout fires unless its promise settled first (DescribeRegions, every unit task).
\* Nothing makes a backend answer: a call without a timer may stay outstanding for ever.
Fairness ==
    /\ WF_vars(main_handler)
    /\ WF_vars(DescribeRegionsFail)
    /\ \A w \in 1..Max(MaxConc, DefaultRegionConc) : WF_vars(w \in DOMAIN workers /\ regionWorker(w))
    /\ \A u \in (1..MaxRegions) \X (1..Len(allRegionServices)) :
          WF_vars(u \in DOMAIN units /\ UnitTimeout(u))
    /\ WF_vars(DispatchDone)
    /\ WF_vars(Aggregate)
    /\ WF_vars(Return)

SpecLive == InitLive /\ [][Next]_vars /\ Fairness

\* the steps of a run in which the listing calls of the units never answer
NextHang ==
    \/ main_handler
    \/ DescribeRegionsResolve
    \/ DescribeRegionsFail
    \/ \E w \in DOMAIN workers : regionWorker(w)
    \/ \E u \in DOMAIN units : UnitTimeout(u)
    \/ DispatchDone
    \/ GetServiceResolve
    \/ GetServiceReject
    \/ \E w \in 1..CosConcurrency : TaggingResponse(w)
    \/ Aggregate
    \/ \E ok \in BOOLEAN : PutObjectDone(ok)
    \/ Return

\* less than Fairness and implied by it: some queued continuation of the dispatcher phase
\* runs, some armed timer fires
Continuation ==
    main_handler \/ (\E w \in DOMAIN workers : regionWorker(w)) \/ DispatchDone
Timer == DescribeRegionsFail \/ \E u \in DOMAIN units : UnitTimeout(u)
Progress == WF_vars(Continuation) /\ WF_vars(Timer)

SpecHang == Init /\ [][NextHang]_vars /\ Progress

SpecPF == InitPF /\ [][NextPF]_vars

SpecTags == InitTags /\ [][NextTags]_vars

SpecEIP == InitEIP /\ [][NextEIP]_vars

(***************************************************************************)
(* Properties.                                                             *)
(***************************************************************************)
AfterDispatch == pc \in {"cos", "aggregate", "export", "return", "done"}
KeyOf(u) == regionServices[u[2]]
RegionOf(u) == regions[u[1]]
DescribeFailed == obs.describe \in {"rejected", "timeout:DescribeRegions"}

\* the records a unit invocation contributes when nothing fails
Expected(u) ==
    IF ~Registered(KeyOf(u)) \/ ReturnsEmptyAtOnce(KeyOf(u), RegionOf(u)) THEN <<>>
    ELSE PushAll(UnitResult(KeyOf(u), Inventory(RegionOf(u), KeyOf(u))), RegionOf(u))

\* C1: no position of the region list is claimed twice or by two workers at once, and once
\* the dispatcher phase is over every position has been claimed exactly once and every task
\* of every position has been started exactly once and has settled.
C1_ClaimOnce ==
    /\ \A pos \in DOMAIN obs.claims : obs.claims[pos] <= 1
    /\ \A pos \in DOMAIN obs.claims : obs.claims[pos] = 1 <=> pos <= rIndex
    /\ \A w, v \in DOMAIN workers :
          (w # v /\ workers[w].st = "awaiting" /\ workers[v].st = "awaiting")
              => workers[w].pos # workers[v].pos
    /\ AfterDispatch =>
          /\ \A pos \in 1..Len(regions) : obs.claims[pos] = 1
          /\ \A u \in DOMAIN units : units[u].n = 1 /\ Settled(u)

\* three regions, two workers, the third region claimed by a worker that finished its first
C1_Witness ==
    /\ AfterDispatch
    /\ Len(regions) = 3 /\ Len(workers) = 2
    /\ \E w \in DOMAIN workers : workers[w].pos = 3
    /\ \E u \in DOMAIN units : units[u].task = "ok" /\ units[u].pushed # <<>>

\* C2: a unit invocation that threw or timed out has contributed no record; every unit
\* invocation that succeeded has contributed all its records; the dispatcher never waits
\* without a unit still running, claims every region, and the run returns a summary.
C2_UnitFailureIsolated ==
    /\ \A u \in DOMAIN units :
          /\ units[u].task \in {"failed", "timeout"} => units[u].pushed = <<>>
          /\ units[u].task = "ok" => units[u].pushed = Expected(u)
    /\ (pc = "dispatch" /\ ~ContinuationPending) => \E u \in DOMAIN units : units[u].task = "pending"
    /\ AfterDispatch => rIndex = Len(regions) /\ \A u \in DOMAIN units : Settled(u)
    /\ pc = "done" => result.kind = "summary"

\* one worker; in its first region one unit timed out, another contributed; it went on to
\* the next region, whose unit contributed too; the run returned
C2_Witness ==
    /\ pc = "done" /\ result.kind = "summary" /\ Len(workers) = 1
    /\ \E u, v, x \in DOMAIN units :
          /\ u[1] = v[1] /\ units[u].task = "timeout"
          /\ units[v].task = "ok" /\ units[v].pushed # <<>>
          /\ x[1] > u[1] /\ units[x].task = "ok" /\ units[x].pushed # <<>>

\* every scanner that ran failed: each unit invocation threw or timed out, scanCOS gave nothing
EveryScannerFailed ==
    /\ \A u \in DOMAIN units :
          \/ units[u].task \in {"failed", "timeout", "skipped"}
          \/ ReturnsEmptyAtOnce(KeyOf(u), RegionOf(u))
    /\ CosItems = <<>>

\* C3: unless DescribeRegions failed the run never raises; a finished run has returned the
\* summary with scannedRegions = regions.length, and untaggedCount = 0 if every scanner failed.
C3_NeverRaises ==
    /\ ~DescribeFailed => pc # "failed" /\ result.kind # "error"
    /\ pc = "done" => result.kind = "summary" /\ result.scannedRegions = Len(regions)
    /\ (pc = "done" /\ EveryScannerFailed) => result.untaggedCount = 0

\* two regions, a unit that threw and one that timed out, getService rejected, putObject rejected
C3_Witness ==
    /\ pc = "done" /\ Len(regions) = 2 /\ EveryScannerFailed
    /\ \E u \in DOMAIN units : units[u].task = "failed"
    /\ \E u \in DOMAIN units : units[u].task = "timeout"
    /\ cos.st = "threw" /\ exporter.st = "threw" /\ obs.putObject = 1

\* C4: when DescribeRegions rejected or timed out the run has raised that error, with no
\* unit started, no scanCOS call, no export and no summary; and a run raises only then
\* (and only without an override).
C4_FatalOnlyResolution ==
    /\ DescribeFailed =>
          /\ pc = "failed" /\ result = Raised(obs.describe)
          /\ \A u \in DOMAIN units : units[u].n = 0
          /\ workers = <<>> /\ cos.st = "none" /\ obs.getService = 0
          /\ exporter.n = 0 /\ obs.putObject = 0
    /\ (pc = "failed" \/ result.kind = "error") => DescribeFailed /\ ~NonBlank(env.SCAN_REGIONS)

C4_Witness == pc = "failed" /\ result.error = "timeout:DescribeRegions" /\ env.SCAN_REGIONS = <<" ">>

\* C5: the summary returned is the one the records handed to the exporter give, whether
\* the export succeeded or threw.
C5_ExportFailureKeepsSummary ==
    pc = "done" => result = Summary(Len(regions), Len(exporter.items))

\* putObject rejected after a scan that found records
C5_Witness ==
    /\ pc = "done" /\ exporter.st = "threw" /\ obs.putObject = 1
    /\ Len(exporter.items) >= 2 /\ result.untaggedCount = Len(exporter.items)

\* a <= b in the order by (region, service, id)
TupleLeq(a, b) ==
    \/ LocaleRank(a.region) < LocaleRank(b.region)
    \/ /\ a.region = b.region
       /\ \/ LocaleRank(a.service) < LocaleRank(b.service)
          \/ a.service = b.service /\ LocaleRank(a.id) <= LocaleRank(b.id)

\* C6: the sequence handed to the exporter is ascending by (region, service, id).
C6_ExportedSorted ==
    exporter.n > 0 =>
        \A i \in 1..(Len(exporter.items) - 1) : TupleLeq(exporter.items[i], exporter.items[i + 1])

\* three or more records that were pushed in another order than the sorted one
C6_Witness ==
    /\ exporter.n > 0 /\ Len(exporter.items) >= 3 /\ exporter.items # outputs
    /\ \E i \in DOMAIN exporter.items : exporter.items[i].region = "global"

Count(seq, r) == Cardinality({i \in DOMAIN seq : seq[i] = r})
Range(seq) == {seq[i] : i \in DOMAIN seq}

RECURSIVE PushedCount(_, _)
PushedCount(U, r) ==
    IF U = {} THEN 0
    ELSE LET u == CHOOSE x \in U : TRUE
         IN  Count(units[u].pushed, r) + PushedCount(U \ {u}, r)

\* C7: the sequence handed to the exporter holds every record exactly as many times as the
\* tasks that succeeded and scanCOS emitted it; a task that succeeded pushed all the unit returned.
C7_Permutation ==
    /\ \A u \in DOMAIN units :
          units[u].task = "ok" => units[u].pushed = PushAll(units[u].returned, RegionOf(u))
    /\ exporter.n > 0 =>
          /\ Len(exporter.items) = Len(outputs)
          /\ \A r \in Range(outputs) \cup Range(exporter.items) \cup Range(CosItems) :
                /\ Count(exporter.items, r) = Count(outputs, r)
                /\ Count(outputs, r) = PushedCount(DOMAIN units, r) + Count(CosItems, r)

\* the same (service, region, id) emitted twice and kept twice
C7_Witness ==
    /\ exporter.n > 0
    /\ \E i, j \in DOMAIN exporter.items : i < j /\ exporter.items[i] = exporter.items[j]

\* C8: against a backend that answers every offset with a full page, pagedFetch issues at
\* most parsedMaxPagesPerList page requests.
C8_PageCap == (pf.on /\ pf.endless) => pf.f.calls <= pf.maxPages

\* C9: no page request stays outstanding longer than the per-page timeout: by then the
\* fetch has failed.
C9_PageTimeout == (pf.on /\ pf.f.st = "awaiting") => pf.age <= RequestTimeoutTicks

\* C10: over a backing sequence of n items pagedFetch returns exactly the sequence, after
\* floor(n / pageSize) + 1 page requests, the last of which held fewer than pageSize items.
C10_PagedFetchExact ==
    (pf.on /\ ~pf.endless /\ pf.f.st = "returned") =>
        /\ pf.f.all = pf.backing
        /\ pf.f.calls = (Len(pf.backing) \div pf.pageSize) + 1
        /\ pf.f.offset = (pf.f.calls - 1) * pf.pageSize
        /\ Len(pf.backing) - pf.f.offset < pf.pageSize

\* 5 items, pageSize 2: returned after 3 requests
C10_Witness ==
    /\ pf.on /\ ~pf.endless /\ pf.f.st = "returned"
    /\ Len(pf.backing) = 5 /\ pf.pageSize = 2 /\ pf.f.calls = 3 /\ pf.f.all = <<1, 2, 3, 4, 5>>

\* the collections among the candidate fields of a resource, in the order extractTags reads them
Collections(obj) ==
    SelectSeq(<<obj.Tags, obj.TagSet, obj.TagList, obj.ResourceTags, TagSetOf(obj.Tags)>>, IsCollection)
NonEmptyCollections(obj) == SelectSeq(Collections(obj), LAMBDA c : c.items # <<>>)

\* C11: hasNoTags answers true exactly when extractTags returns the empty sequence, also for
\* no resource (where both do); {Tags: {a: 1}} gives the keys of Tags; {} gives [].
C11_HasNoTagsIffEmpty ==
    /\ (tg.extracted /\ tg.asked) => (tg.noTags <=> tg.tags = <<>>)
    /\ (tg.extracted /\ tg.asked /\ tg.obj = NullResource) => tg.tags = <<>> /\ tg.noTags
    /\ (tg.extracted /\ tg.obj = Resource("x", Obj(TagsOf("Tags", 1)), Undef, Undef, Undef))
          => tg.tags = <<"a">>
    /\ (tg.extracted /\ tg.obj = Resource("x", Undef, Undef, Undef, Undef)) => tg.tags = <<>>

\* {Tags: {a: 1}} went through both functions: its key came back, and hasNoTags said false
C11_Witness ==
    /\ tg.extracted /\ tg.asked
    /\ tg.obj = Resource("x", Obj(TagsOf("Tags", 1)), Undef, Undef, Undef)
    /\ tg.tags = <<"a">> /\ ~tg.noTags

\* C12: when a candidate field holds at least one tag, extractTags returns the tags of the
\* first candidate that is not empty, and hasNoTags is false.
C12_FirstNonEmpty ==
    (tg.obj # NullResource /\ NonEmptyCollections(tg.obj) # <<>>) =>
        /\ tg.extracted => tg.tags = NonEmptyCollections(tg.obj)[1].items
        /\ tg.asked => ~tg.noTags

\* the positions of the region list whose invocation of the unit at index k called its listing API
Listed(k) == {pos \in 1..Len(regions) : units[<<pos, k>>].f.calls > 0}

\* C13: once every region is processed, the account-global unit CCN has listed (and so could
\* emit) from exactly one region's invocation and returned empty at once from every other,
\* and its records carry region "global".
C13_GlobalOnce ==
    AfterDispatch =>
        \A k \in 1..Len(regionServices) :
            regionServices[k] = "CCN" =>
                /\ Cardinality(Listed(k)) = 1
                /\ \A pos \in 1..Len(regions) : \A i \in DOMAIN units[<<pos, k>>].pushed :
                       units[<<pos, k>>].pushed[i].region = "global"

BucketNames(idxs) == {cos.buckets[i].Name : i \in idxs}
\* the buckets of the model by the answer getBucketTagging gives for them
NoTagConfigBuckets == {"b1", "b5"}
OtherErrorBuckets == {"b2", "b8"}
UntaggedBuckets == {"b1", "b4", "b5", "b7"}

\* C14: a bucket whose tagging fetch answered 404 or NoSuchTagSet has been recorded, once, as
\* an untagged COS record, and the record is among those handed to the exporter.
C14_NoTagConfigIsUntagged ==
    /\ \A b \in BucketNames(cos.answered) \cap NoTagConfigBuckets :
          Count(cos.results, CosRecord(b)) = 1
    /\ (exporter.n > 0 /\ cos.st = "returned") =>
          \A b \in BucketNames(cos.answered) \cap NoTagConfigBuckets :
              Count(exporter.items, CosRecord(b)) = 1

\* both kinds of answer were given and both buckets reached the exporter
C14_Witness ==
    /\ pc = "done" /\ NoTagConfigBuckets \subseteq BucketNames(cos.answered)
    /\ \A b \in NoTagConfigBuckets : Count(exporter.items, CosRecord(b)) = 1

\* C15: a bucket whose tagging fetch failed with another error has no record; the pool goes
\* on: scanCOS does not throw once the listing resolved, and when it returns every listed
\* bucket has been claimed and answered and the result holds exactly the untagged buckets
\* among those that did not fail, which main_handler pushes.
C15_OtherErrorDropsOne ==
    /\ \A b \in OtherErrorBuckets : Count(cos.results, CosRecord(b)) = 0
    /\ cos.st \in {"pool", "returned"} \/ cos.buckets = <<>>
    /\ cos.st = "returned" /\ HasCreds =>
          /\ cos.i = Len(cos.buckets) /\ cos.answered = DOMAIN cos.buckets
          /\ \A b \in BucketNames(DOMAIN cos.buckets) :
                Count(cos.results, CosRecord(b)) = IF b \in UntaggedBuckets THEN 1 ELSE 0
    /\ exporter.n > 0 /\ cos.st = "returned" =>
          \A b \in BucketNames(DOMAIN cos.buckets) :
              Count(outputs, CosRecord(b)) = Count(cos.results, CosRecord(b))

\* six buckets, five workers: the worker whose fetch for b2 was denied went on to claim b6;
\* the run ended with the untagged buckets recorded
C15_Witness ==
    /\ pc = "done" /\ Len(cos.buckets) = 6 /\ cos.wk[2].idx = 6
    /\ Len(cos.results) = 3 /\ Count(exporter.items, CosRecord("b2")) = 0
    /\ Count(exporter.items, CosRecord("b5")) = 1

IsCos(r) == r.service = "COS"

\* C16: without the explicit credentials scanCOS issues no getService and no getBucketTagging
\* call and returns no record: no COS record is pushed or exported.
C16_NoCredsSkipsCos ==
    ~env.creds =>
        /\ obs.getService = 0 /\ obs.getBucketTagging = 0
        /\ cos.results = <<>> /\ cos.st \in {"none", "returned"}
        /\ \A i \in DOMAIN outputs : ~IsCos(outputs[i])
        /\ \A i \in DOMAIN exporter.items : ~IsCos(exporter.items[i])

\* a finished run without credentials over an account that has buckets, with other records
C16_Witness ==
    /\ pc = "done" /\ ~env.creds /\ cloud.Buckets # <<>>
    /\ cos.st = "returned" /\ result.untaggedCount > 0

\* C17: with ENABLE_COS_SCAN = "false" no getService call is issued and no COS record is
\* pushed or exported.
C17_FlagDisablesCos ==
    env.ENABLE_COS_SCAN = "false" =>
        /\ obs.getService = 0
        /\ \A i \in DOMAIN outputs : ~IsCos(outputs[i])
        /\ \A i \in DOMAIN exporter.items : ~IsCos(exporter.items[i])

\* C19: with a non-blank SCAN_REGIONS no DescribeRegions call is issued, and the region list
\* is the override's pieces, trimmed, the empty ones left out, in order.
C19_OverrideNoDescribe ==
    env.SCAN_REGIONS \in RegionOverrides \ {<<>>, <<" ">>} =>
        /\ obs.DescribeRegions = 0 /\ obs.describe = "none" /\ pc # "describe"
        /\ pc # "start" =>
              /\ env.SCAN_REGIONS = <<"r1", " r2">> => regions = <<"r1", "r2">>
              /\ env.SCAN_REGIONS = <<"", HomeRegion, "r1">> => regions = <<HomeRegion, "r1">>
              /\ env.SCAN_REGIONS = <<"r2", "r1", "r2">> => regions = <<"r2", "r1", "r2">>

\* the override " r2" was trimmed, "r1, r2" was scanned to the end without DescribeRegions
C19_Witness ==
    /\ pc = "done" /\ env.SCAN_REGIONS = <<"r1", " r2">> /\ regions = <<"r1", "r2">>
    /\ obs.DescribeRegions = 0 /\ result.scannedRegions = 2

\* C20: the resolved region list holds no region code twice, so scannedRegions counts
\* distinct regions.
C20_RegionsDistinct ==
    /\ \A i, j \in DOMAIN regions : i # j => regions[i] # regions[j]
    /\ pc = "done" => result.scannedRegions = Cardinality(Range(regions))

\* C18: every run eventually returns its summary or raises the region-resolution error,
\* whichever backend calls never answer.
C18_EventuallyFinishes == <>(pc \in {"done", "failed"})

\* C21: no unit is invoked twice for the same region code in a run, and no invocation is
\* started a second time.
C21_OncePerRegionCode ==
    /\ \A u \in DOMAIN units : units[u].n <= 1
    /\ \A u, v \in DOMAIN units :
          (u # v /\ units[u].n > 0 /\ units[v].n > 0 /\ Registered(KeyOf(u)))
              => ~(KeyOf(u) = KeyOf(v) /\ RegionOf(u) = RegionOf(v))

\* C22: the run over "r1, r2" with the subset [CVM], whose invocations all returned, with the
\* COS scanner not enabled or without credentials, returns {scannedRegions: 2,
\* untaggedCount: 2} and exports exactly (r1, CVM, i1), (r2, CVM, i2).
C22_EndToEnd ==
    ( /\ pc = "done"
      /\ env.SCAN_REGIONS = <<"r1", " r2">> /\ env.SCAN_SERVICES = <<"CVM">>
      /\ \A u \in DOMAIN units : units[u].task = "ok"
      /\ env.ENABLE_COS_SCAN = "false" \/ ~env.creds ) =>
        /\ result = Summary(2, 2)
        /\ exporter.items = << [service |-> "CVM", id |-> "i1", region |-> "r1"],
                               [service |-> "CVM", id |-> "i2", region |-> "r2"] >>

\* the resources of the model that carry a tag
TaggedIds == {"i0", "b3", "b6"}

\* C23: no record returned by a unit, recorded by scanCOS, pushed or exported is the record
\* of a resource that carries tags.
C23_OnlyUntagged ==
    /\ \A u \in DOMAIN units : \A i \in DOMAIN units[u].returned :
          units[u].returned[i].id \notin TaggedIds
    /\ \A i \in DOMAIN cos.results : cos.results[i].id \notin TaggedIds
    /\ \A i \in DOMAIN outputs : outputs[i].id \notin TaggedIds
    /\ \A i \in DOMAIN exporter.items : exporter.items[i].id \notin TaggedIds

\* r1 was listed (i1 untagged, i0 tagged) and the tagged bucket b3 was answered: i1 and b1
\* are exported
C23_Witness ==
    /\ pc = "done" /\ 3 \in cos.answered
    /\ \E i \in DOMAIN exporter.items : exporter.items[i].id = "i1"
    /\ \E i \in DOMAIN exporter.items : exporter.items[i].id = "b1"

\* C24: the service of every record a unit returned is a key of the registry.
C24_ServiceIsKey ==
    \A u \in DOMAIN units : \A i \in DOMAIN units[u].returned :
        units[u].returned[i].service \in ScannerKeys

\* C25: the COS scanner does not wait for the region workers: with credentials, while a
\* region worker is in progress getService has been issued.
C25_PoolsParallel ==
    (env.creds /\ pc = "dispatch" /\ \E w \in DOMAIN workers : workers[w].st = "awaiting")
        => obs.getService > 0

\* C25 as amended: scanCOS is called, and getService issued, only after every region
\* worker has exited, every region being claimed and every task settled.
C25_PoolsSequential ==
    (obs.getService > 0 \/ cos.st # "none") =>
        /\ \A w \in DOMAIN workers : workers[w].st = "exited"
        /\ rIndex = Len(regions)
        /\ \A u \in DOMAIN units : units[u].task # "pending"
        /\ pc \notin {"start", "describe", "dispatch"}

\* the COS pool at work after a dispatcher phase that produced records
C25_Witness ==
    /\ cos.st = "pool" /\ obs.getService = 1 /\ obs.getBucketTagging > 0
    /\ Len(workers) > 0 /\ outputs # <<>>

\* C26: a region with a task still awaiting is the current region of exactly one worker:
\* a worker that went on to another region left no task awaiting behind.
C26_NextRegionAfterSettled ==
    \A pos \in 1..Len(regions) :
        (\E k \in 1..Len(regionServices) : units[<<pos, k>>].task = "pending") =>
            Cardinality({w \in DOMAIN workers :
                            workers[w].st = "awaiting" /\ workers[w].pos = pos}) = 1

\* the only worker is in its second region with a task awaiting there, after a task of its
\* first region timed out
C26_Witness ==
    /\ Len(workers) = 1 /\ workers[1].st = "awaiting" /\ workers[1].pos = 2
    /\ \E k \in 1..Len(regionServices) : units[<<1, k>>].task = "timeout"
    /\ \E k \in 1..Len(regionServices) : units[<<2, k>>].task = "pending"

\* maxRegionConcurrency as configured: MAX_REGION_CONCURRENCY, or 3 when unset
Configured == IF env.MAX_REGION_CONCURRENCY = 0 THEN 3 ELSE env.MAX_REGION_CONCURRENCY
InProgress == {pos \in 1..Len(regions) :
                  \E k \in 1..Len(regionServices) : units[<<pos, k>>].task = "pending"}

\* C27: min(maxRegionConcurrency, regions.length) workers are started, and at most
\* maxRegionConcurrency regions are claimed and unfinished at any time.
C27_WorkerBound ==
    /\ pc \notin {"start", "describe", "failed"} =>
          Len(workers) = IF Configured < Len(regions) THEN Configured ELSE Len(regions)
    /\ Cardinality(InProgress) <= Configured
    /\ Cardinality({w \in DOMAIN workers : workers[w].st = "awaiting"}) <= Configured

\* three regions, concurrency 2: two regions in progress at once, the third not yet claimed
C27_Witness ==
    /\ Len(regions) = 3 /\ Configured = 2 /\ Len(workers) = 2
    /\ Cardinality(InProgress) = 2 /\ rIndex = 2

C29_SequentialOffsets ==
    pf.on =>
        /\ Len(pf.reqs) = pf.f.calls
        /\ \A k \in DOMAIN pf.reqs : pf.reqs[k] = (k - 1) * pf.pageSize
        /\ Len(pf.reqs) - pf.answered = IF pf.f.st = "awaiting" THEN 1 ELSE 0

\* five items in pages of one: the sixth request, at offset 5, is outstanding
C29_Witness ==
    /\ pf.on /\ ~pf.endless /\ pf.pageSize = 1 /\ Len(pf.backing) = 5
    /\ pf.reqs = <<0, 1, 2, 3, 4, 5>> /\ pf.answered = 5 /\ pf.f.st = "awaiting"

\* the status isUnbound looks at (AddressStatus, or Status when that is missing), and the
\* statuses of the model by the set they belong to, in any letter case
EipStatus == IF eip.x.AddressStatus # "" THEN eip.x.AddressStatus ELSE eip.x.Status
BoundStatuses == {"BIND", "BINDING", "ASSOCIATED", "ASSOCIATING", "bind"}
UnboundStatuses == {"UNBIND", "UNBINDING", "UNBOUND", "AVAILABLE", "Available"}
EipUntagged == eip.x.res = Resource("e1", Undef, Undef, Undef, Undef)
AnyAttachment ==
    eip.x.InstanceId \/ eip.x.NetworkInterfaceId \/ eip.x.PrivateAddressId \/ eip.x.AddressBindInfo

\* C30: an address with a status of the bound set is bound and one with a status of the
\* unbound set is unbound, whatever its attachment fields; with any other or no status it is
\* bound exactly if an attachment field is present; the unit keeps an address exactly if it
\* is untagged and unbound.
C30_EipUnbound ==
    /\ eip.asked =>
          /\ EipStatus \in BoundStatuses => ~eip.unbound
          /\ EipStatus \in UnboundStatuses => eip.unbound
          /\ EipStatus \notin BoundStatuses \cup UnboundStatuses => (eip.unbound <=> ~AnyAttachment)
    /\ (eip.asked /\ eip.filtered) => (eip.kept <=> (EipUntagged /\ eip.unbound))
    /\ (eip.filtered /\ ~EipUntagged) => ~eip.kept

\* an untagged address with status AVAILABLE and an InstanceId is kept
C30_Witness ==
    /\ eip.asked /\ eip.filtered /\ eip.kept /\ eip.unbound
    /\ eip.x.AddressStatus = "AVAILABLE" /\ eip.x.InstanceId /\ EipUntagged

\* an address whose status is in neither set (or missing) and that has no attachment field
EipFallbackCase == EipStatus \notin BoundStatuses \cup UnboundStatuses /\ ~AnyAttachment

\* C31 as stated: an untagged address with an unrecognized status and no association field
\* is classified as bound and left out of the report.
C31_FallbackBound ==
    (EipFallbackCase /\ EipUntagged) =>
        /\ eip.asked => ~eip.unbound
        /\ eip.filtered => ~eip.kept

\* C31: an untagged address with an unrecognized status and no association field is
\* classified as unbound and is kept in the report; with the same status and an association
\* field it is classified as bound and left out.
C31_FallbackUnbound ==
    /\ (EipFallbackCase /\ EipUntagged) =>
          /\ eip.asked => eip.unbound
          /\ eip.filtered => eip.kept
    /\ (EipStatus \notin BoundStatuses \cup UnboundStatuses /\ AnyAttachment) =>
          /\ eip.asked => ~eip.unbound
          /\ eip.filtered => ~eip.kept

\* an untagged address with status OFFLINE and no attachment was classified and kept
C31_Witness ==
    /\ eip.asked /\ eip.filtered /\ eip.unbound /\ eip.kept
    /\ eip.x.AddressStatus = "OFFLINE" /\ ~AnyAttachment /\ EipUntagged

\* C32: when Tags is a mapping that wraps a TagSet sequence, hasNoTags is true exactly when
\* that nested TagSet is empty.
C32_NestedTagSetDecides ==
    (tg.asked /\ tg.obj # NullResource /\ tg.obj.Tags.k = "obj" /\ tg.obj.Tags.ts[1] = "arr") =>
        (tg.noTags <=> Tail(tg.obj.Tags.ts) = <<>>)

\* the COS records of a sequence of records
CosRecordsOf(s) == SelectSeq(s, IsCos)

C34_ExportOnce ==
    /\ exporter.n <= 1
    /\ exporter.n = 1 <=> pc \in {"export", "return", "done"}
    /\ obs.putObject = (IF exporter.n = 1 /\ env.creds THEN 1 ELSE 0)
    /\ exporter.n = 1 =>
          /\ \A w \in DOMAIN workers : workers[w].st = "exited"
          /\ rIndex = Len(regions)
          /\ cos.st \in {"returned", "threw"}
          /\ \A w \in 1..CosConcurrency : cos.wk[w].st # "awaiting"
          /\ exporter.items = sortedOutputs
          /\ Len(exporter.items) = Len(outputs)
          /\ Range(exporter.items) = Range(outputs)
          /\ \A i \in 1..(Len(exporter.items) - 1) :
                TupleLeq(exporter.items[i], exporter.items[i + 1])
    /\ obs.putObject = 1 =>
          /\ Len(exporter.body) = 1 + Len(exporter.items)
          /\ exporter.body[1] = <<"region", "service", "id">>
          /\ \A i \in DOMAIN exporter.items :
                exporter.body[i + 1] =
                    <<exporter.items[i].region, exporter.items[i].service, exporter.items[i].id>>
    /\ obs.putObject = 0 => exporter.body = <<>>

\* a run uploaded an object of the header and three or more lines, and returned
C34_Witness ==
    /\ pc = "done" /\ exporter.n = 1 /\ obs.putObject = 1
    /\ Len(exporter.body) >= 4 /\ exporter.items # outputs

\* the buckets whose getBucketTagging call is outstanding
InFlight == {cos.wk[w].idx : w \in CosAwaiting(cos)}

\* C35: whatever the order in which the tagging calls are answered, every bucket is taken by
\* at most one worker of scanCOS, the buckets taken are the first cos.i of the list, each has
\* its tagging asked once (outstanding or answered, never both, no two workers on one
\* bucket), at most min(5, number of buckets) calls are outstanding, and when scanCOS
\* returns every bucket was taken and answered.
C35_BucketClaimedOnce ==
    /\ \A b \in DOMAIN cos.claimed : cos.claimed[b] <= 1 /\ (cos.claimed[b] = 1 <=> b <= cos.i)
    /\ \A v, w \in CosAwaiting(cos) : cos.wk[v].idx = cos.wk[w].idx => v = w
    /\ InFlight \cap cos.answered = {}
    /\ InFlight \cup cos.answered = 1..cos.i
    /\ obs.getBucketTagging = cos.i
    /\ Cardinality(CosAwaiting(cos)) <= Min(5, Len(cos.buckets))
    /\ (cos.st = "returned" /\ obs.getService = 1) =>
          /\ cos.i = Len(cloud.Buckets)
          /\ cos.answered = DOMAIN cloud.Buckets
          /\ \A b \in DOMAIN cloud.Buckets : cos.claimed[b] = 1

\* six buckets: five calls are outstanding, the sixth bucket was taken by the worker whose
\* first call was answered
C35_Witness ==
    /\ Len(cos.buckets) = 6 /\ cos.i = 6
    /\ Cardinality(CosAwaiting(cos)) = 5
    /\ Cardinality(cos.answered) = 1 /\ 1 \notin cos.answered

\* C36: untaggedCount is always the number of records in outputs, and the untaggedCount of
\* the summary that is returned is the number of records the exporter was called with.
C36_CountIsLength ==
    /\ untaggedCount = Len(outputs)
    /\ exporter.n > 0 => untaggedCount = Len(exporter.items)
    /\ result.kind = "summary" =>
          /\ result.untaggedCount = Len(exporter.items)
          /\ result.untaggedCount = Len(outputs)

\* a summary counting four or more records, some of regions and some of buckets, after a
\* unit pushed two records at once
C36_Witness ==
    /\ result.kind = "summary" /\ result.untaggedCount >= 4
    /\ result.untaggedCount = Len(exporter.items)
    /\ \E i \in DOMAIN outputs : IsCos(outputs[i])
    /\ \E u \in DOMAIN units : Len(units[u].pushed) >= 2

\* C37: a unit invocation whose timer has fired stays timed out and never pushes a record:
\* a step in which one of its listing calls completes leaves outputs and untaggedCount as
\* they were; and once the exporter has been called, outputs and the sorted sequence do not
\* change any more.
C37_NoLatePush ==
    [][ /\ \A u \in DOMAIN units :
              units[u].task = "timeout" =>
                  /\ units'[u].task = "timeout" /\ units'[u].pushed = <<>>
                  /\ units'[u].f # units[u].f =>
                        outputs' = outputs /\ untaggedCount' = untaggedCount
        /\ exporter.n > 0 =>
              /\ outputs' = outputs /\ untaggedCount' = untaggedCount
              /\ sortedOutputs' = sortedOutputs /\ exporter'.items = exporter.items
      ]_vars

\* the exporter was called; a unit that had timed out has since got its listing (holding an
\* untagged resource), and no record of it is in outputs
C37_Witness ==
    /\ exporter.n > 0
    /\ \E u \in DOMAIN units :
          /\ units[u].task = "timeout" /\ units[u].f.st = "returned"
          /\ units[u].returned # <<>> /\ units[u].pushed = <<>>
          /\ \A i \in DOMAIN units[u].returned :
                PushedRecord(units[u].returned[i], RegionOf(u)) \notin Range(outputs)

\* the unit `key` sets the region of its records itself
SetsOwnRegion(key) == key = "CCN"

\* C38: every record a unit invocation pushed carries the region the invocation was made
\* for, unless the unit sets the region itself ("global"); and every record of outputs with
\* a region code is a resource that the unit's listing API holds in that very region.
C38_RegionOfInvocation ==
    /\ \A u \in DOMAIN units : \A i \in DOMAIN units[u].pushed :
          /\ ~SetsOwnRegion(KeyOf(u)) => units[u].pushed[i].region = RegionOf(u)
          /\ SetsOwnRegion(KeyOf(u)) => units[u].pushed[i].region = "global"
    /\ \A i \in DOMAIN outputs :
          outputs[i].region # "global" =>
              \E u \in DOMAIN units :
                  /\ RegionOf(u) = outputs[i].region
                  /\ ServiceLabel(KeyOf(u)) = outputs[i].service
                  /\ outputs[i] \in Range(units[u].pushed)
                  /\ \E x \in Range(Inventory(outputs[i].region, KeyOf(u))) : x.id = outputs[i].id

\* two region workers ran side by side: a record of the region claimed second was pushed
\* before a record of the region claimed first, each under its own region
C38_Witness ==
    /\ Len(workers) = 2 /\ Len(regions) >= 2 /\ regions[1] # regions[2]
    /\ \E i, j \in DOMAIN outputs :
          /\ i < j
          /\ outputs[i].region = regions[2] /\ outputs[j].region = regions[1]
          /\ outputs[i] \in Range(units[<<2, 1>>].pushed)
          /\ outputs[j] \in Range(units[<<1, 1>>].pushed)

\* the records pushed by the first n unit invocations, taken in the order of the region list
\* and, within a region, of regionServices (not in the order in which they completed)
RECURSIVE PushedInListOrder(_)
PushedInListOrder(n) ==
    IF n = 0 THEN <<>>
    ELSE LET K == Len(regionServices)
             u == <<((n - 1) \div K) + 1, ((n - 1) % K) + 1>>
         IN  PushedInListOrder(n - 1) \o units[u].pushed

\* the records of scanCOS taken in the order of the bucket list (not of the answers)
CosInListOrder ==
    SelectSeq([b \in DOMAIN cos.buckets |->
                  [service |-> "COS", id |-> cos.buckets[b].Name, region |-> "global"]],
              LAMBDA r : r \in Range(CosItems))

\* what the outcomes of a run (which invocations succeeded with which records, which buckets
\* were found untagged) determine, free of any completion order
Canonical == PushedInListOrder(Len(regions) * Len(regionServices)) \o CosInListOrder

\* C39: the sequence handed to the exporter depends on the outcomes only: it holds the
\* records of the outcomes, each as often as it was emitted, any two neighbours are either
\* the same record or strictly ascending by (region, service, id), and so it is the sorted
\* arrangement of the outcomes taken in list order, whatever the order of completion was.
C39_Deterministic ==
    exporter.n > 0 =>
        /\ \A r \in Range(exporter.items) \cup Range(Canonical) :
              Count(exporter.items, r) = Count(Canonical, r)
        /\ \A i \in 1..(Len(exporter.items) - 1) :
              \/ exporter.items[i] = exporter.items[i + 1]
              \/ /\ TupleLeq(exporter.items[i], exporter.items[i + 1])
                 /\ ~TupleLeq(exporter.items[i + 1], exporter.items[i])
        /\ exporter.items = Sort(Canonical)

\* records of regions and of buckets were collected in another order than the list order,
\* and the order of collection was not the sorted one either
C39_Witness ==
    /\ exporter.n > 0 /\ Len(exporter.items) >= 4
    /\ outputs # Canonical /\ outputs # exporter.items
    /\ CosInListOrder # CosItems /\ Len(CosItems) >= 2

\* C40: a unit invocation whose key names no unit of scannersForRegion is skipped: it calls
\* no listing API and pushes no record, the other keys of its region are scanned as usual,
\* and the run returns its summary.
C40_UnknownKeySkipped ==
    /\ \A u \in DOMAIN units :
          (units[u].n > 0 /\ KeyOf(u) \notin ScannerKeys) =>
              /\ units[u].task = "skipped"
              /\ units[u].f.calls = 0
              /\ units[u].pushed = <<>>
    /\ \A i \in DOMAIN outputs : outputs[i].service \in {"CVM", "CCN", "TDSQL_C", "COS"}
    /\ pc = "done" => result.kind = "summary"

====
